---- MODULE Spec2Model ----
(***************************************************************************)
(* Model of the market community's persistence layer, MarketDB            *)
(* (Tribler/community/market/database.py): the SQLite tables as sets of   *)
(* rows, the connection's view and the committed (on disk) state, and one *)
(* action per public method.                                              *)
(***************************************************************************)
EXTENDS Integers, Sequences, FiniteSets, TLC

VARIABLES
    tables,                 \* names of the tables that exist
    columns,                \* the columns a migration adds: <<table, column>> -> its DEFAULT
    option,                 \* rows of option(key, value)
    orders,                 \* rows of orders
    orders_reserved_ticks,  \* rows of orders_reserved_ticks
    transactions,           \* rows of transactions
    payments,               \* rows of payments, in rowid (insertion) order
    ticks,                  \* rows of ticks
    traders,                \* rows of traders
    disk,                   \* the store as of the last commit
    last                    \* the last call: method and exception raised

vars == <<tables, columns, option, orders, orders_reserved_ticks, transactions,
          payments, ticks, traders, disk, last>>

\* Version to keep track if the db schema needs to be updated.
LATEST_DB_VERSION == 2

(***************************************************************************)
(* Bounds of the model.                                                    *)
(***************************************************************************)
MaxOrders == 2          \* rows in orders
MaxLinks == 2           \* rows in orders_reserved_ticks
MaxTransactions == 2    \* rows in transactions
MaxPayments == 2        \* rows in payments

\* The ids callers use: two numbers of one trader, one number shared by two
\* traders, the number 0, and a gap between the numbers.
OrderIds == {<<"t1", 0>>, <<"t1", 2>>, <<"t2", 2>>}
TransactionIds == {<<"t1", 0>>, <<"t1", 2>>, <<"t2", 2>>}
ReservedIds == {<<"t2", 1>>, <<"t1", 3>>}
Quantities == {5, 7}
\* Python's None
NoneValue == [type |-> "NoneType"]

(***************************************************************************)
(* Text and numbers. Python's unicode(n), int(s), unicode.isdigit() and    *)
(* SQLite's conversion of a text to a number, on texts written as          *)
(* sequences of characters.                                                *)
(***************************************************************************)
Digits == <<"0", "1", "2", "3", "4", "5", "6", "7", "8", "9">>

DigitChars == {Digits[i] : i \in 1..10}

DigitValues == [c \in DigitChars |-> (CHOOSE i \in 1..10 : Digits[i] = c) - 1]

IsDigitChar(c) == c \in DigitChars

DigitValue(c) == DigitValues[c]

\* U+00B2 SUPERSCRIPT TWO: a character unicode.isdigit() accepts and int() does
\* not.
SuperscriptTwo == "U+00B2"

RECURSIVE unicode(_)
unicode(n) ==
    IF n < 0 THEN <<"-">> \o unicode(0 - n)
    ELSE IF n < 10 THEN <<Digits[n + 1]>>
    ELSE unicode(n \div 10) \o <<Digits[(n % 10) + 1]>>

\* unicode.isdigit(): every character has the Unicode property Digit.
isdigit(s) ==
    Len(s) > 0 /\ \A i \in 1..Len(s) : IsDigitChar(s[i]) \/ s[i] = SuperscriptTwo

\* The texts made of the decimal digits 0..9.
isdecimal(s) == Len(s) > 0 /\ \A i \in 1..Len(s) : IsDigitChar(s[i])

RECURSIVE int(_)
int(s) ==
    IF Len(s) = 1 THEN DigitValue(s[1])
    ELSE 10 * int(SubSeq(s, 1, Len(s) - 1)) + DigitValue(s[Len(s)])

\* INTEGER column affinity: a bound text that reads as an integer is stored and
\* compared as that integer; any other text stays a text.
IntegerAffinity(text) ==
    IF isdecimal(text) THEN int(text)
    ELSE IF Len(text) > 1 /\ text[1] = "-" /\ isdecimal(Tail(text)) THEN 0 - int(Tail(text))
    ELSE text

(***************************************************************************)
(* The store. Snapshot is what a commit writes to disk.                    *)
(***************************************************************************)
AllTables == {"blocks", "orders", "transactions", "payments", "ticks",
              "orders_reserved_ticks", "traders", "option"}

VerifiedColumn == <<"orders", "verified">>
BlockHashColumn == <<"ticks", "block_hash">>

Snapshot ==
    [tables |-> tables, columns |-> columns, option |-> option, orders |-> orders,
     orders_reserved_ticks |-> orders_reserved_ticks, transactions |-> transactions,
     payments |-> payments, ticks |-> ticks, traders |-> traders]

\* The methods below run on a store whose layout is the schema's: every statement
\* names the columns of the latest layout.
Ready == tables = AllTables /\ DOMAIN columns = {VerifiedColumn, BlockHashColumn}

Call(op, raised) == [op |-> op, raised |-> raised]

commit == disk' = Snapshot'

(***************************************************************************)
(* Orders and their reserved ticks.                                        *)
(***************************************************************************)
\* The orders a caller may pass: order.order_id, the scalar fields (price and
\* verified stand for them; each sample order has a price of its own),
\* order.reserved_ticks as a dictionary reserved order id -> quantity.
ReservedDicts == UNION {[ids -> Quantities] : ids \in SUBSET ReservedIds}

PriceOf(id) == (IF id[1] = "t1" THEN 10 ELSE 20) + id[2]

Orders ==
    {[order_id |-> id, price |-> PriceOf(id), verified |-> 1, reserved_ticks |-> dict] :
        id \in OrderIds, dict \in ReservedDicts}

\* Order.to_database(): the tuple bound to the INSERT of add_order.
Order_to_database(order) ==
    [trader_id |-> order.order_id[1], order_number |-> unicode(order.order_id[2]),
     price |-> order.price, verified |-> order.verified]

\* Order.from_database(data, reserved_ticks)
Order_from_database(data, reserved_ticks) ==
    [order_id |-> <<data.trader_id, data.order_number>>,
     price |-> data.price,
     verified |-> data.verified,
     reserved_ticks |->
        [id \in {pair[1] : pair \in reserved_ticks} |->
            (CHOOSE pair \in reserved_ticks : pair[1] = id)[2]]]

\* The parameters (unicode(id.trader_id), unicode(id.order_number)) of a WHERE
\* clause, as the TEXT and INTEGER columns they are compared with read them.
WhereKey(id) == <<id[1], IntegerAffinity(unicode(id[2]))>>

\* WHERE trader_id = ? AND order_number = ?
MatchesOrderId(row, key) == row.trader_id = key[1] /\ row.order_number = key[2]

\* A SELECT whose WHERE clause names the trader alone.
get_reserved_ticks_of_trader(order_id) ==
    {<<<<row.reserved_trader_id, row.reserved_order_number>>, row.quantity>> :
        row \in {r \in orders_reserved_ticks : r.trader_id = order_id[1]}}

get_reserved_ticks(order_id) ==
    LET key == WhereKey(order_id)
    IN  {<<<<row.reserved_trader_id, row.reserved_order_number>>, row.quantity>> :
            row \in {r \in orders_reserved_ticks : MatchesOrderId(r, key)}}

\* get_order reading the order off its reservation links when it finds no
\* orders row.
get_order_of_links(order_id) ==
    LET key == WhereKey(order_id)
        db_result == {row \in orders : MatchesOrderId(row, key)}
    IN  IF db_result = {}
        THEN IF get_reserved_ticks(order_id) = {} THEN NoneValue
             ELSE [order_id |-> order_id, reserved_ticks |-> get_reserved_ticks(order_id)]
        ELSE Order_from_database(CHOOSE row \in db_result : TRUE,
                                 get_reserved_ticks(order_id))

get_order(order_id) ==
    LET key == WhereKey(order_id)
        db_result == {row \in orders : MatchesOrderId(row, key)}
    IN  IF db_result = {} THEN NoneValue
        ELSE Order_from_database(CHOOSE row \in db_result : TRUE,
                                 get_reserved_ticks(order_id))

\* SELECT MAX(column): NULL (None) on an empty table.
MaxOf(S) ==
    IF S = {} THEN NoneValue
    ELSE [type |-> "int", value |-> CHOOSE n \in S : \A m \in S : m <= n]

\* Python's "not x" for x an integer or None
Not(x) == x.type = "NoneType" \/ x.value = 0

\* A counter that counts the rows instead of taking the highest number.
get_next_order_number_by_count == Cardinality(orders) + 1

\* SELECT MIN(order_number) in place of SELECT MAX(order_number).
get_next_order_number_of_min ==
    LET numbers == {row.order_number : row \in orders}
    IN  IF numbers = {} THEN 1
        ELSE (CHOOSE n \in numbers : \A m \in numbers : n <= m) + 1

get_next_order_number ==
    LET highest_order_number == MaxOf({row.order_number : row \in orders})
    IN  IF Not(highest_order_number) THEN 1 ELSE highest_order_number.value + 1

\* The row add_reserved_tick inserts.
ReservedTickRow(order_id, reserved_order_id, quantity) ==
    [trader_id |-> order_id[1],
     order_number |-> IntegerAffinity(unicode(order_id[2])),
     reserved_trader_id |-> reserved_order_id[1],
     reserved_order_number |-> IntegerAffinity(unicode(reserved_order_id[2])),
     quantity |-> quantity]

\* PRIMARY KEY (trader_id, order_number, reserved_trader_id, reserved_order_number)
ReservedTickKey(row) ==
    <<row.trader_id, row.order_number, row.reserved_trader_id, row.reserved_order_number>>

\* The row the INSERT of add_order writes.
OrderRow(data) ==
    [trader_id |-> data.trader_id, order_number |-> IntegerAffinity(data.order_number),
     price |-> data.price, verified |-> data.verified]

\* PRIMARY KEY (trader_id, order_number)
OrderKey(row) == <<row.trader_id, row.order_number>>

add_reserved_tick(order_id, reserved_order_id, quantity) ==
    LET row == ReservedTickRow(order_id, reserved_order_id, quantity)
    IN  /\ Ready
        /\ UNCHANGED <<tables, columns, option, orders, transactions, payments, ticks, traders>>
        /\ IF \E r \in orders_reserved_ticks : ReservedTickKey(r) = ReservedTickKey(row)
           THEN /\ last' = Call("add_reserved_tick", "IntegrityError")
                /\ UNCHANGED <<orders_reserved_ticks, disk>>
           ELSE /\ Cardinality(orders_reserved_ticks) < MaxLinks
                /\ orders_reserved_ticks' = orders_reserved_ticks \cup {row}
                /\ last' = Call("add_reserved_tick", "none")
                /\ commit

add_order(order) ==
    LET row == OrderRow(Order_to_database(order))
        links == {ReservedTickRow(order.order_id, id, order.reserved_ticks[id]) :
                    id \in DOMAIN order.reserved_ticks}
        taken == {l \in links : \E r \in orders_reserved_ticks :
                                    ReservedTickKey(r) = ReservedTickKey(l)}
    IN  /\ Ready
        /\ UNCHANGED <<tables, columns, option, transactions, payments, ticks, traders>>
        /\ IF \E r \in orders : OrderKey(r) = OrderKey(row)
           THEN /\ last' = Call("add_order", "IntegrityError")
                /\ UNCHANGED <<orders, orders_reserved_ticks, disk>>
           ELSE /\ Cardinality(orders) < MaxOrders
                /\ Cardinality(orders_reserved_ticks) + Cardinality(links) <= MaxLinks
                /\ orders' = orders \cup {row}
                /\ IF taken = {}
                   THEN /\ orders_reserved_ticks' = orders_reserved_ticks \cup links
                        /\ last' = Call("add_order", "none")
                   ELSE \* iteritems() yields the entries in some order; the entries
                        \* before the first one whose key is taken are written
                        /\ \E written \in SUBSET (links \ taken) :
                              orders_reserved_ticks' = orders_reserved_ticks \cup written
                        /\ last' = Call("add_order", "IntegrityError")
                /\ commit

\* A DELETE whose WHERE clause names the trader alone.
delete_reserved_ticks_of_trader(order_id) ==
    {r \in orders_reserved_ticks : r.trader_id # order_id[1]}

\* delete_reserved_ticks with its DELETE left out.
delete_reserved_ticks_nothing(order_id) == orders_reserved_ticks

delete_reserved_ticks_rows(order_id) ==
    LET key == WhereKey(order_id)
    IN  {r \in orders_reserved_ticks : ~MatchesOrderId(r, key)}

delete_reserved_ticks(order_id) ==
    /\ Ready
    /\ orders_reserved_ticks' = delete_reserved_ticks_rows(order_id)
    /\ last' = Call("delete_reserved_ticks", "none")
    /\ UNCHANGED <<tables, columns, option, orders, transactions, payments, ticks, traders, disk>>

delete_order(order_id) ==
    /\ Ready
    /\ LET key == WhereKey(order_id)
       IN  orders' = {row \in orders : ~MatchesOrderId(row, key)}
    /\ orders_reserved_ticks' = delete_reserved_ticks_rows(order_id)
    /\ last' = Call("delete_order", "none")
    /\ UNCHANGED <<tables, columns, option, transactions, payments, ticks, traders, disk>>

(***************************************************************************)
(* Transactions and their payments.                                        *)
(***************************************************************************)
\* The payments a caller may pass: the key (trader_id, message_number), the
\* transaction it belongs to and its timestamp. The later message carries the
\* earlier timestamp; the two payments of <<"t2", 2>> carry the same timestamp.
MessageNumbers == {<<"1">>, <<"2">>}

TimestampOf(message_number, transaction_id) ==
    IF transaction_id = <<"t2", 2>> THEN 1
    ELSE IF message_number = <<"1">> THEN 2 ELSE 1

Payments ==
    {[trader_id |-> "t1", message_number |-> m, transaction_id |-> id,
      timestamp |-> TimestampOf(m, id)] : m \in MessageNumbers, id \in TransactionIds}

\* Sequences of at most n payments of one transaction, each key once.
PaymentLists(transaction_id, n) ==
    LET own == {p \in Payments : p.transaction_id = transaction_id}
    IN  {list \in UNION {[1..k -> own] : k \in 0..n} :
            \A i, j \in DOMAIN list :
                i # j => list[i].message_number # list[j].message_number}

\* The transactions a caller may pass: transaction.transaction_id, the scalar
\* fields (price stands for them) and transaction.payments.
Transactions ==
    UNION {{[transaction_id |-> id, price |-> PriceOf(id), payments |-> list] :
                list \in PaymentLists(id, MaxPayments)} : id \in TransactionIds}

\* Transaction.to_database(): the tuple bound to the INSERT of add_transaction.
Transaction_to_database(transaction) ==
    [trader_id |-> transaction.transaction_id[1],
     transaction_number |-> unicode(transaction.transaction_id[2]),
     price |-> transaction.price]

\* Transaction.from_database(data, payments)
Transaction_from_database(data, payment_list) ==
    [transaction_id |-> <<data.trader_id, data.transaction_number>>,
     price |-> data.price,
     payments |-> payment_list]

\* Payment.to_database(): the tuple bound to the INSERT of add_payment.
Payment_to_database(payment) ==
    [trader_id |-> payment.trader_id,
     message_number |-> payment.message_number,
     transaction_trader_id |-> payment.transaction_id[1],
     transaction_number |-> unicode(payment.transaction_id[2]),
     timestamp |-> payment.timestamp]

\* Payment.from_database(data)
Payment_from_database(data) ==
    [trader_id |-> data.trader_id,
     message_number |-> data.message_number,
     transaction_id |-> <<data.transaction_trader_id, data.transaction_number>>,
     timestamp |-> data.timestamp]

\* The row the INSERT of add_transaction writes.
TransactionRow(data) ==
    [trader_id |-> data.trader_id,
     transaction_number |-> IntegerAffinity(data.transaction_number),
     price |-> data.price]

\* PRIMARY KEY (trader_id, transaction_number)
TransactionKey(row) == <<row.trader_id, row.transaction_number>>

\* The row the INSERT of add_payment writes.
PaymentRow(data) ==
    [trader_id |-> data.trader_id,
     message_number |-> data.message_number,
     transaction_trader_id |-> data.transaction_trader_id,
     transaction_number |-> IntegerAffinity(data.transaction_number),
     timestamp |-> data.timestamp]

\* PRIMARY KEY (trader_id, message_number, transaction_trader_id, transaction_number)
PaymentKey(row) ==
    <<row.trader_id, row.message_number, row.transaction_trader_id, row.transaction_number>>

\* WHERE trader_id = ? AND transaction_number = ?
MatchesTransactionId(row, key) ==
    row.trader_id = key[1] /\ row.transaction_number = key[2]

\* WHERE transaction_trader_id = ? AND transaction_number = ?
MatchesPaymentTransaction(row, key) ==
    row.transaction_trader_id = key[1] /\ row.transaction_number = key[2]

\* ORDER BY timestamp ASC: the rows by ascending timestamp, rows of one timestamp
\* in the order of the scan. The place of a row is the number of rows before it.
OrderByTimestamp(rows) ==
    LET before(i) == {j \in DOMAIN rows :
                        \/ rows[j].timestamp < rows[i].timestamp
                        \/ rows[j].timestamp = rows[i].timestamp /\ j < i}
    IN  [k \in DOMAIN rows |->
            rows[CHOOSE i \in DOMAIN rows : Cardinality(before(i)) + 1 = k]]

\* The SELECT of get_payments without its ORDER BY clause.
get_payments_unordered(transaction_id) ==
    LET key == WhereKey(transaction_id)
        matches(row) == MatchesPaymentTransaction(row, key)
        db_result == SelectSeq(payments, matches)
    IN  [i \in DOMAIN db_result |-> Payment_from_database(db_result[i])]

\* The SELECT of get_payments run on the rows of a payments table, and the
\* Payment built from each row of the result.
select_payments(rows, transaction_id) ==
    LET key == WhereKey(transaction_id)
        matches(row) == MatchesPaymentTransaction(row, key)
        db_result == OrderByTimestamp(SelectSeq(rows, matches))
    IN  [i \in DOMAIN db_result |-> Payment_from_database(db_result[i])]

get_payments(transaction_id) == select_payments(payments, transaction_id)

get_transaction(transaction_id) ==
    LET key == WhereKey(transaction_id)
        db_result == {row \in transactions : MatchesTransactionId(row, key)}
    IN  IF db_result = {} THEN NoneValue
        ELSE Transaction_from_database(CHOOSE row \in db_result : TRUE,
                                       get_payments(transaction_id))

\* A counter that counts the rows instead of taking the highest number.
get_next_transaction_number_by_count == Cardinality(transactions) + 1

get_next_transaction_number ==
    LET highest_transaction_number ==
            MaxOf({row.transaction_number : row \in transactions})
    IN  IF Not(highest_transaction_number) THEN 1
        ELSE highest_transaction_number.value + 1

\* A DELETE whose WHERE clause names the transaction number alone.
delete_payments_of_number(transaction_id) ==
    LET keeps(row) == row.transaction_number # transaction_id[2]
    IN  SelectSeq(payments, keeps)

\* delete_payments with its DELETE left out.
delete_payments_nothing(transaction_id) == payments

delete_payments_rows(transaction_id) ==
    LET key == WhereKey(transaction_id)
        keeps(row) == ~MatchesPaymentTransaction(row, key)
    IN  SelectSeq(payments, keeps)

PaymentRows(list) == [i \in DOMAIN list |-> PaymentRow(Payment_to_database(list[i]))]

PaymentKeys(rows) == {PaymentKey(rows[i]) : i \in DOMAIN rows}

add_payment(payment) ==
    LET row == PaymentRow(Payment_to_database(payment))
    IN  /\ Ready
        /\ UNCHANGED <<tables, columns, option, orders, orders_reserved_ticks,
                       transactions, ticks, traders>>
        /\ IF PaymentKey(row) \in PaymentKeys(payments)
           THEN /\ last' = Call("add_payment", "IntegrityError")
                /\ UNCHANGED <<payments, disk>>
           ELSE /\ Len(payments) < MaxPayments
                /\ payments' = Append(payments, row)
                /\ last' = Call("add_payment", "none")
                /\ commit

add_transaction(transaction) ==
    LET row == TransactionRow(Transaction_to_database(transaction))
        kept == delete_payments_rows(transaction.transaction_id)
        rows == PaymentRows(transaction.payments)
    IN  /\ Ready
        /\ UNCHANGED <<tables, columns, option, orders, orders_reserved_ticks, ticks, traders>>
        /\ IF \E r \in transactions : TransactionKey(r) = TransactionKey(row)
           THEN /\ last' = Call("add_transaction", "IntegrityError")
                /\ UNCHANGED <<transactions, payments, disk>>
           ELSE /\ Cardinality(transactions) < MaxTransactions
                /\ Len(kept) + Len(rows) <= MaxPayments
                /\ transactions' = transactions \cup {row}
                /\ payments' = kept \o rows
                /\ last' = Call("add_transaction", "none")
                   \* the commit after the INSERT writes the transaction; the
                   \* DELETE of delete_payments is written by add_payment's commit
                /\ IF rows = <<>>
                   THEN disk' = [Snapshot' EXCEPT !.payments = payments]
                   ELSE commit

delete_payments(transaction_id) ==
    /\ Ready
    /\ payments' = delete_payments_rows(transaction_id)
    /\ last' = Call("delete_payments", "none")
    /\ UNCHANGED <<tables, columns, option, orders, orders_reserved_ticks, transactions,
                   ticks, traders, disk>>

delete_transaction(transaction_id) ==
    /\ Ready
    /\ LET key == WhereKey(transaction_id)
       IN  transactions' = {row \in transactions : ~MatchesTransactionId(row, key)}
    /\ payments' = delete_payments_rows(transaction_id)
    /\ last' = Call("delete_transaction", "none")
    /\ UNCHANGED <<tables, columns, option, orders, orders_reserved_ticks, ticks,
                   traders, disk>>

(***************************************************************************)
(* The process ending inside add_order or add_transaction. Every write up  *)
(* to that point has been committed by the commit after the INSERT of the  *)
(* parent and by the commit of each add_reserved_tick / add_payment; a     *)
(* write that was executed and not committed is rolled back when the store *)
(* is opened again, so the connection then sees the committed store.       *)
(***************************************************************************)
\* add_order with a single commit after its loop: a crash inside it loses the
\* order and everything that was pending.
add_order_crash_atomic(order, done) ==
    /\ Ready
    /\ done \subseteq DOMAIN order.reserved_ticks /\ done # DOMAIN order.reserved_ticks
    /\ orders' = disk.orders
    /\ orders_reserved_ticks' = disk.orders_reserved_ticks
    /\ transactions' = disk.transactions
    /\ payments' = disk.payments
    /\ ticks' = disk.ticks
    /\ traders' = disk.traders
    /\ last' = Call("add_order", "crash")
    /\ UNCHANGED <<tables, columns, option, disk>>

\* add_order ending after the commit of the orders row and the
\* add_reserved_tick of the reserved orders in done, not all of them.
add_order_crash(order, done) ==
    LET row == OrderRow(Order_to_database(order))
        written == {ReservedTickRow(order.order_id, id, order.reserved_ticks[id]) :
                        id \in done}
    IN  /\ Ready
        /\ done \subseteq DOMAIN order.reserved_ticks /\ done # DOMAIN order.reserved_ticks
        /\ ~\E r \in orders : OrderKey(r) = OrderKey(row)
        /\ ~\E l \in written, r \in orders_reserved_ticks :
                ReservedTickKey(r) = ReservedTickKey(l)
        /\ Cardinality(orders) < MaxOrders
        /\ Cardinality(orders_reserved_ticks) + Cardinality(written) <= MaxLinks
        /\ orders' = orders \cup {row}
        /\ orders_reserved_ticks' = orders_reserved_ticks \cup written
        /\ last' = Call("add_order", "crash")
        /\ UNCHANGED <<tables, columns, option, transactions, payments, ticks, traders>>
        /\ commit

\* add_transaction ending after the commit of the transactions row and the
\* add_payment of the first n payments, not all of them. The DELETE of
\* delete_payments is committed by the first add_payment; before it, it is
\* rolled back.
add_transaction_crash(transaction, n) ==
    LET row == TransactionRow(Transaction_to_database(transaction))
        kept == delete_payments_rows(transaction.transaction_id)
        rows == PaymentRows(SubSeq(transaction.payments, 1, n))
    IN  /\ Ready
        /\ n \in 0..(Len(transaction.payments) - 1)
        /\ ~\E r \in transactions : TransactionKey(r) = TransactionKey(row)
        /\ Cardinality(transactions) < MaxTransactions
        /\ Len(kept) + Len(rows) <= MaxPayments
        /\ transactions' = transactions \cup {row}
        /\ payments' = IF n = 0 THEN payments ELSE kept \o rows
        /\ last' = Call("add_transaction", "crash")
        /\ UNCHANGED <<tables, columns, option, orders, orders_reserved_ticks, ticks, traders>>
        /\ commit

(***************************************************************************)
(* Ticks and trader identities.                                            *)
(***************************************************************************)
TickIds == {<<"t1", 0>>, <<"t2", 2>>}

TickPrices == {10, 11}

\* The ticks a caller may pass: tick.order_id and the scalar fields (price and
\* block_hash stand for them).
Ticks ==
    {[order_id |-> id, price |-> price, block_hash |-> <<"h">>] :
        id \in TickIds, price \in TickPrices}

\* Tick.to_database(): the tuple bound to the INSERT of add_tick.
Tick_to_database(tick) ==
    [trader_id |-> tick.order_id[1], order_number |-> unicode(tick.order_id[2]),
     price |-> tick.price, block_hash |-> tick.block_hash]

\* The row the INSERT of add_tick writes.
TickRow(data) ==
    [trader_id |-> data.trader_id, order_number |-> IntegerAffinity(data.order_number),
     price |-> data.price, block_hash |-> data.block_hash]

\* PRIMARY KEY (trader_id, order_number)
TickKey(row) == <<row.trader_id, row.order_number>>

\* add_tick with INSERT OR REPLACE in place of its INSERT.
add_tick_or_replace(tick) ==
    LET row == TickRow(Tick_to_database(tick))
    IN  /\ Ready
        /\ ticks' = {r \in ticks : TickKey(r) # TickKey(row)} \cup {row}
        /\ last' = Call("add_tick", "none")
        /\ UNCHANGED <<tables, columns, option, orders, orders_reserved_ticks,
                       transactions, payments, traders>>
        /\ commit

add_tick(tick) ==
    LET row == TickRow(Tick_to_database(tick))
    IN  /\ Ready
        /\ UNCHANGED <<tables, columns, option, orders, orders_reserved_ticks,
                       transactions, payments, traders>>
        /\ IF \E r \in ticks : TickKey(r) = TickKey(row)
           THEN /\ last' = Call("add_tick", "IntegrityError")
                /\ UNCHANGED <<ticks, disk>>
           ELSE /\ ticks' = ticks \cup {row}
                /\ last' = Call("add_tick", "none")
                /\ commit

delete_all_ticks ==
    /\ Ready
    /\ ticks' = {}
    /\ last' = Call("delete_all_ticks", "none")
    /\ UNCHANGED <<tables, columns, option, orders, orders_reserved_ticks,
                   transactions, payments, traders, disk>>

TraderIds == {"t1", "t2", "t3"}

IpAddresses == {<<"1", ".", "1">>, <<"2", ".", "2">>}

Ports == {1, 2}

\* The row of the parameters (unicode(trader_id), unicode(ip), port)
TraderRow(trader_id, ip, port) ==
    [trader_id |-> trader_id, ip_address |-> ip, port |-> port]

\* add_trader_identity on a traders table without its PRIMARY KEY: every call
\* adds a row.
add_trader_identity_append(trader_id, ip, port) ==
    /\ Ready
    /\ traders' = traders \cup {TraderRow(trader_id, ip, port)}
    /\ last' = Call("add_trader_identity", "none")
    /\ UNCHANGED <<tables, columns, option, orders, orders_reserved_ticks,
                   transactions, payments, ticks>>
    /\ commit

\* INSERT OR REPLACE: the row of the same PRIMARY KEY(trader_id) is deleted and
\* the new row is inserted.
add_trader_identity(trader_id, ip, port) ==
    /\ Ready
    /\ traders' = {r \in traders : r.trader_id # trader_id}
                      \cup {TraderRow(trader_id, ip, port)}
    /\ last' = Call("add_trader_identity", "none")
    /\ UNCHANGED <<tables, columns, option, orders, orders_reserved_ticks,
                   transactions, payments, ticks>>
    /\ commit

\* SELECT * FROM traders
get_traders == traders

(***************************************************************************)
(* The schema, the upgrade script and check_database. A script is a        *)
(* sequence of statements; executescript commits what is pending and then  *)
(* runs them one by one, each in its own transaction, up to the first one  *)
(* that fails.                                                             *)
(***************************************************************************)
CreateTableIfNotExists(table) == [kind |-> "CREATE TABLE IF NOT EXISTS", table |-> table]

CreateTable(table) == [kind |-> "CREATE TABLE", table |-> table]

InsertOption(key, value) == [kind |-> "INSERT INTO option", key |-> key, value |-> value]

UpdateOption(key, value) == [kind |-> "UPDATE option", key |-> key, value |-> value]

\* ALTER TABLE table ADD COLUMN column affinity DEFAULT literal NOT NULL
AddColumn(table, column, affinity, literal) ==
    [kind |-> "ALTER TABLE ADD COLUMN", table |-> table, column |-> column,
     affinity |-> affinity, literal |-> literal]

\* '0' * 32
Repeat(char, n) == [i \in 1..n |-> char]

schema ==
    <<CreateTableIfNotExists("blocks"),
      CreateTableIfNotExists("orders"),
      CreateTableIfNotExists("transactions"),
      CreateTableIfNotExists("payments"),
      CreateTableIfNotExists("ticks"),
      CreateTableIfNotExists("orders_reserved_ticks"),
      CreateTableIfNotExists("traders"),
      CreateTable("option"),
      InsertOption("database_version", unicode(LATEST_DB_VERSION))>>

get_schema == schema

\* None for a version that has no script
get_upgrade_script(current_version) ==
    IF current_version = 1
    THEN <<AddColumn("orders", "verified", "INTEGER", <<"1">>),
           UpdateOption("database_version", <<"2">>),
           AddColumn("ticks", "block_hash", "TEXT", Repeat("0", 32))>>
    ELSE <<>>

\* The columns CREATE TABLE gives a table, among those a migration adds.
SchemaColumnsOf(table) ==
    IF table = "orders" THEN {VerifiedColumn}
    ELSE IF table = "ticks" THEN {BlockHashColumn}
    ELSE {}

\* The value of DEFAULT literal in a column of the affinity: an unquoted run of
\* digits is a number, which a TEXT column holds as its decimal text.
DefaultValue(literal, affinity) ==
    IF isdecimal(literal)
    THEN IF affinity = "TEXT" THEN unicode(int(literal)) ELSE int(literal)
    ELSE literal

WithColumn(row, column, value) ==
    [f \in DOMAIN row \cup {column} |-> IF f = column THEN value ELSE row[f]]

Raised(store, raised) == [store |-> store, raised |-> raised]

\* One statement on a store.
Execute(stmt, store) ==
    CASE stmt.kind = "CREATE TABLE IF NOT EXISTS" ->
            IF stmt.table \in store.tables THEN Raised(store, "none")
            ELSE Raised([store EXCEPT
                    !.tables = @ \cup {stmt.table},
                    !.columns = [c \in DOMAIN @ \cup SchemaColumnsOf(stmt.table) |->
                                    IF c \in DOMAIN @ THEN @[c]
                                    ELSE [has_default |-> FALSE]]], "none")
      [] stmt.kind = "CREATE TABLE" ->
            IF stmt.table \in store.tables THEN Raised(store, "OperationalError")
            ELSE Raised([store EXCEPT !.tables = @ \cup {stmt.table}], "none")
      [] stmt.kind = "INSERT INTO option" ->
            IF "option" \notin store.tables THEN Raised(store, "OperationalError")
            ELSE IF \E r \in store.option : r.key = stmt.key
            THEN Raised(store, "IntegrityError")
            ELSE Raised([store EXCEPT
                    !.option = @ \cup {[key |-> stmt.key, value |-> stmt.value]}], "none")
      [] stmt.kind = "UPDATE option" ->
            IF "option" \notin store.tables THEN Raised(store, "OperationalError")
            ELSE Raised([store EXCEPT
                    !.option = {IF r.key = stmt.key
                                THEN [key |-> r.key, value |-> stmt.value]
                                ELSE r : r \in @}], "none")
      [] stmt.kind = "ALTER TABLE ADD COLUMN" ->
            IF \/ stmt.table \notin store.tables
               \/ <<stmt.table, stmt.column>> \in DOMAIN store.columns
            THEN Raised(store, "OperationalError")
            ELSE LET value == DefaultValue(stmt.literal, stmt.affinity)
                     added == [store EXCEPT
                        !.columns = [c \in DOMAIN @ \cup {<<stmt.table, stmt.column>>} |->
                                        IF c \in DOMAIN @ THEN @[c]
                                        ELSE [has_default |-> TRUE, default |-> value]]]
                 IN  IF stmt.table = "orders"
                     THEN Raised([added EXCEPT !.orders =
                            {WithColumn(r, stmt.column, value) : r \in @}], "none")
                     ELSE Raised([added EXCEPT !.ticks =
                            {WithColumn(r, stmt.column, value) : r \in @}], "none")

\* cursor.executescript(script) from statement i on. fail is the statement at
\* which the environment (a full disk, an I/O error) makes the execution fail,
\* 0 for none.
RECURSIVE executescript_from(_, _, _, _)
executescript_from(script, i, store, fail) ==
    IF i > Len(script) THEN Raised(store, "none")
    ELSE IF i = fail THEN Raised(store, "OperationalError")
    ELSE LET done == Execute(script[i], store)
         IN  IF done.raised # "none" THEN done
             ELSE executescript_from(script, i + 1, done.store, fail)

executescript(script, store, fail) == executescript_from(script, 1, store, fail)

\* int(database_version)
PyInt(text) ==
    IF Len(text) > 1 /\ text[1] = "-" THEN 0 - int(Tail(text)) ELSE int(text)

\* The texts int() accepts
IntParses(text) ==
    isdecimal(text) \/ (Len(text) > 1 /\ text[1] = "-" /\ isdecimal(Tail(text)))

\* check_database with its assert statements compiled away
asserts_skipped(database_version) == TRUE

\* assert database_version.isdigit(); assert int(database_version) >= 0
asserts(database_version) ==
    /\ isdigit(database_version)
    /\ IntParses(database_version) => PyInt(database_version) >= 0

\* while database_version < LATEST_DB_VERSION: ...
RECURSIVE upgrade_loop(_, _, _)
upgrade_loop(database_version, store, fail) ==
    IF ~(database_version < LATEST_DB_VERSION) THEN Raised(store, "none")
    ELSE LET upgrade_script == get_upgrade_script(database_version)
             done == IF upgrade_script # <<>>
                     THEN executescript(upgrade_script, store, fail)
                     ELSE Raised(store, "none")
         IN  IF done.raised # "none" THEN done
             ELSE upgrade_loop(database_version + 1, done.store, fail)

Returned(value) == [op |-> "check_database", raised |-> "none", returned |-> value]

SetStore(store) ==
    /\ tables' = store.tables
    /\ columns' = store.columns
    /\ option' = store.option
    /\ orders' = store.orders
    /\ ticks' = store.ticks
    /\ UNCHANGED <<orders_reserved_ticks, transactions, payments, traders>>

check_database(database_version, fail) ==
    IF ~asserts(database_version)
    THEN /\ last' = Call("check_database", "AssertionError")
         /\ UNCHANGED <<tables, columns, option, orders, orders_reserved_ticks,
                        transactions, payments, ticks, traders, disk>>
    ELSE IF ~IntParses(database_version)
    THEN /\ last' = Call("check_database", "ValueError")
         /\ UNCHANGED <<tables, columns, option, orders, orders_reserved_ticks,
                        transactions, payments, ticks, traders, disk>>
    ELSE LET version == PyInt(database_version)
             created == IF version = 0
                        THEN executescript(get_schema, Snapshot, fail)
                        ELSE Raised(Snapshot, "none")
             upgraded == IF created.raised # "none" THEN created
                         ELSE upgrade_loop(IF version = 0 THEN LATEST_DB_VERSION
                                           ELSE version, created.store, fail)
         IN  /\ SetStore(upgraded.store)
             /\ last' = IF upgraded.raised = "none" THEN Returned(LATEST_DB_VERSION)
                        ELSE Call("check_database", upgraded.raised)
                \* executescript commits what is pending before the script, and
                \* every statement of the script as it runs
             /\ IF \/ version = 0
                   \/ \E v \in version..(LATEST_DB_VERSION - 1) :
                         get_upgrade_script(v) # <<>>
                THEN commit
                ELSE UNCHANGED disk

(***************************************************************************)
(* The store after MarketDB is constructed on a new file: open() has run   *)
(* check_database(u"0"), that is the schema script.                        *)
(***************************************************************************)
NoDefault == [has_default |-> FALSE]

SchemaColumns == [c \in {VerifiedColumn, BlockHashColumn} |-> NoDefault]

VersionRow(text) == [key |-> "database_version", value |-> text]

Init ==
    /\ tables = AllTables
    /\ columns = SchemaColumns
    /\ option = {VersionRow(unicode(LATEST_DB_VERSION))}
    /\ orders = {}
    /\ orders_reserved_ticks = {}
    /\ transactions = {}
    /\ payments = <<>>
    /\ ticks = {}
    /\ traders = {}
    /\ disk = Snapshot
    /\ last = Call("open", "none")

NextOrders ==
    \/ \E order \in Orders : add_order(order)
    \/ \E order_id \in OrderIds : delete_order(order_id)
    \/ \E order_id \in OrderIds, reserved_order_id \in ReservedIds, quantity \in Quantities :
          add_reserved_tick(order_id, reserved_order_id, quantity)
    \/ \E order_id \in OrderIds : delete_reserved_ticks(order_id)

SpecOrders == Init /\ [][NextOrders]_vars

\* The version texts open() or a caller may pass to check_database
VersionTexts ==
    {<<"0">>, <<"1">>, <<"2">>, <<"3">>, <<"0", "1">>, <<"-", "1">>, <<"a">>,
     <<"1", "a">>, <<>>, <<SuperscriptTwo>>}

FailPoints == 0..Len(schema)

NextMigration ==
    \E database_version \in VersionTexts, fail \in FailPoints :
        check_database(database_version, fail)

NextTransactions ==
    \/ \E transaction \in Transactions : add_transaction(transaction)
    \/ \E transaction_id \in TransactionIds : delete_transaction(transaction_id)
    \/ \E payment \in Payments : add_payment(payment)
    \/ \E transaction_id \in TransactionIds : delete_payments(transaction_id)

SpecTransactions == Init /\ [][NextTransactions]_vars

(***************************************************************************)
(* The store as open() finds it, before check_database runs: a new file, a *)
(* store of version 1 (orders without verified, ticks without block_hash)  *)
(* with the rows it holds, a store of the latest version, or a store whose *)
(* marker a later release has advanced.                                    *)
(***************************************************************************)
LegacyOrders ==
    {[trader_id |-> "t1", order_number |-> 0, price |-> 10],
     [trader_id |-> "t2", order_number |-> 2, price |-> 22]}

LegacyTicks ==
    {[trader_id |-> "t1", order_number |-> 0, price |-> 10],
     [trader_id |-> "t2", order_number |-> 2, price |-> 22]}

NoColumns == [c \in {} |-> NoDefault]

InitMigration ==
    /\ \/ /\ tables = {} /\ columns = NoColumns /\ option = {}
          /\ orders = {} /\ ticks = {}
       \/ /\ tables = AllTables /\ columns = NoColumns
          /\ option = {VersionRow(<<"1">>)}
          /\ orders \in SUBSET LegacyOrders /\ ticks \in SUBSET LegacyTicks
       \/ /\ tables = AllTables /\ columns = SchemaColumns
          /\ option \in {{VersionRow(unicode(LATEST_DB_VERSION))},
                         {VersionRow(unicode(LATEST_DB_VERSION + 1))}}
          /\ orders = {} /\ ticks = {}
    /\ orders_reserved_ticks = {}
    /\ transactions = {}
    /\ payments = <<>>
    /\ traders = {}
    /\ disk = Snapshot
    /\ last = Call("open", "none")

SpecMigration == InitMigration /\ [][NextMigration]_vars

(***************************************************************************)
(* The methods of the open store together, on fewer ids: the orders and    *)
(* transactions of trader t1, one reserved order, one quantity, one        *)
(* payment a transaction.                                                  *)
(***************************************************************************)
FewOrders ==
    {order \in Orders :
        /\ order.order_id[1] = "t1"
        /\ \A id \in DOMAIN order.reserved_ticks :
              id = <<"t2", 1>> /\ order.reserved_ticks[id] = 5}

FewTransactions ==
    {transaction \in Transactions :
        /\ transaction.transaction_id[1] = "t1"
        /\ \A i \in DOMAIN transaction.payments :
              transaction.payments[i].message_number = <<"1">>}

FewPayments ==
    {payment \in Payments :
        payment.transaction_id[1] = "t1" /\ payment.message_number = <<"1">>}

Next ==
    \/ \E order \in FewOrders : add_order(order)
    \/ \E order \in FewOrders : delete_order(order.order_id)
    \/ \E order \in FewOrders : add_reserved_tick(order.order_id, <<"t2", 1>>, 5)
    \/ \E order \in FewOrders : delete_reserved_ticks(order.order_id)
    \/ \E transaction \in FewTransactions : add_transaction(transaction)
    \/ \E payment \in FewPayments : delete_transaction(payment.transaction_id)
    \/ \E payment \in FewPayments : add_payment(payment)
    \/ \E payment \in FewPayments : delete_payments(payment.transaction_id)

Spec == Init /\ [][Next]_vars

(***************************************************************************)
(* The eleven writing methods together, on one or two aggregates of each   *)
(* table.                                                                  *)
(***************************************************************************)
\* Each aggregate comes with two values of its scalar fields, so that a second
\* insert of a key can carry other values than the first.
StoreOrders ==
    {[order EXCEPT !.price = price] :
        order \in {o \in FewOrders : o.order_id = <<"t1", 0>>}, price \in {10, 11}}

StoreTransactions ==
    {[transaction EXCEPT !.price = price] :
        transaction \in {t \in FewTransactions : t.transaction_id = <<"t1", 0>>},
        price \in {10, 11}}

StorePayments ==
    {[payment EXCEPT !.timestamp = timestamp] :
        payment \in {q \in FewPayments : q.transaction_id = <<"t1", 0>>},
        timestamp \in {2, 3}}

StoreTicks == {tick \in Ticks : tick.order_id = <<"t1", 0>>}

NextStore ==
    \/ \E order \in StoreOrders : add_order(order)
    \/ \E order \in StoreOrders : delete_order(order.order_id)
    \/ \E order \in StoreOrders, quantity \in Quantities :
          add_reserved_tick(order.order_id, <<"t2", 1>>, quantity)
    \/ \E order \in StoreOrders : delete_reserved_ticks(order.order_id)
    \/ \E transaction \in StoreTransactions : add_transaction(transaction)
    \/ \E payment \in StorePayments : delete_transaction(payment.transaction_id)
    \/ \E payment \in StorePayments : add_payment(payment)
    \/ \E payment \in StorePayments : delete_payments(payment.transaction_id)
    \/ \E tick \in StoreTicks : add_tick(tick)
    \/ delete_all_ticks
    \/ \E ip \in IpAddresses : add_trader_identity("t1", ip, 1)

SpecStore == Init /\ [][NextStore]_vars

(***************************************************************************)
(* add_order and add_transaction with the process ending inside them, and  *)
(* the two deletes, on the orders of two traders and the transactions of   *)
(* one.                                                                    *)
(***************************************************************************)
CrashOrders == {order \in Orders : order.order_id[2] = 2}

CrashTransactions ==
    {transaction \in Transactions : transaction.transaction_id = <<"t1", 2>>}

NextCrash ==
    \/ \E order \in CrashOrders : add_order(order)
    \/ \E order \in CrashOrders : delete_order(order.order_id)
    \/ \E order \in CrashOrders, done \in SUBSET ReservedIds : add_order_crash(order, done)
    \/ \E transaction \in CrashTransactions : add_transaction(transaction)
    \/ \E transaction \in CrashTransactions : delete_transaction(transaction.transaction_id)
    \/ \E transaction \in CrashTransactions, n \in 0..MaxPayments :
          add_transaction_crash(transaction, n)

SpecCrash == Init /\ [][NextCrash]_vars

NextTraders ==
    \E trader_id \in TraderIds, ip \in IpAddresses, port \in Ports :
        add_trader_identity(trader_id, ip, port)

SpecTraders == Init /\ [][NextTraders]_vars

(***************************************************************************)
(* The rows of an aggregate, read off the tables.                          *)
(***************************************************************************)
OrderRowsOf(id) == {r \in orders : r.trader_id = id[1] /\ r.order_number = id[2]}

LinkRowsOf(id) ==
    {r \in orders_reserved_ticks : r.trader_id = id[1] /\ r.order_number = id[2]}

TransactionRowsOf(id) ==
    {r \in transactions : r.trader_id = id[1] /\ r.transaction_number = id[2]}

PaymentRowsOf(id) ==
    {payments[i] : i \in {j \in DOMAIN payments :
        /\ payments[j].transaction_trader_id = id[1]
        /\ payments[j].transaction_number = id[2]}}

Range(seq) == {seq[i] : i \in DOMAIN seq}

\* C3: right after delete_order(id) returns, get_order(id) is None and
\* get_reserved_ticks(id) is empty, and the orders rows and reservation links of
\* every other order id are the ones there were before the call.
C3_DeleteOrderCascades ==
    [][\A id \in OrderIds : (last'.op = "delete_order" /\ delete_order(id)) =>
          /\ get_order(id)' = NoneValue
          /\ get_reserved_ticks(id)' = {}
          /\ \A other \in OrderIds \ {id} :
                /\ OrderRowsOf(other)' = OrderRowsOf(other)
                /\ LinkRowsOf(other)' = LinkRowsOf(other)]_vars

\* delete_order has just removed an order that had reservation links (they are
\* still in the committed store), next to another order that keeps its links.
C3_Witness ==
    /\ last.op = "delete_order"
    /\ \E id \in OrderIds :
          /\ OrderRowsOf(id) = {} /\ LinkRowsOf(id) = {}
          /\ \E r \in disk.orders_reserved_ticks : <<r.trader_id, r.order_number>> = id
          /\ \E r \in disk.orders : <<r.trader_id, r.order_number>> = id
          /\ \E other \in OrderIds \ {id} :
                OrderRowsOf(other) # {} /\ LinkRowsOf(other) # {}

\* C4: right after delete_transaction(id) returns, get_transaction(id) is None
\* and get_payments(id) is empty, and the payments of every other transaction
\* are the ones there were before the call, in the same order.
C4_DeleteTransactionCascades ==
    [][\A id \in TransactionIds :
          (last'.op = "delete_transaction" /\ delete_transaction(id)) =>
          /\ get_transaction(id)' = NoneValue
          /\ get_payments(id)' = <<>>
          /\ \A other \in TransactionIds \ {id} :
                /\ PaymentRowsOf(other)' = PaymentRowsOf(other)
                /\ get_payments(other)' = get_payments(other)]_vars

\* delete_transaction has just removed a transaction that had payments, next
\* to a payment of another transaction.
C4_Witness ==
    /\ last.op = "delete_transaction"
    /\ \E id \in TransactionIds :
          /\ TransactionRowsOf(id) = {} /\ PaymentRowsOf(id) = {}
          /\ \E r \in disk.transactions : <<r.trader_id, r.transaction_number>> = id
          /\ \E r \in Range(disk.payments) :
                <<r.transaction_trader_id, r.transaction_number>> = id
          /\ \E other \in TransactionIds \ {id} : PaymentRowsOf(other) # {}

\* C6 as claimed: for every order with no orders row of its key, after
\* add_order(order) completes get_order(order.order_id) is the order that was
\* inserted: its scalar fields and exactly its reserved ticks.
C6_RoundTripAnyStore ==
    [][\A order \in Orders :
          (/\ last' = Call("add_order", "none")
           /\ OrderRowsOf(order.order_id) = {}
           /\ add_order(order))
              => get_order(order.order_id)' = order]_vars

\* C6 amended: the same, for an order with neither an orders row nor a
\* reservation link of its key in the store: add_order(order) completes and
\* get_order(order.order_id) is the order. (A step of add_order for a key that
\* had no orders row is one that leaves an orders row of that key.)
C6_RoundTrip ==
    [][last'.op = "add_order" =>
          \A id \in OrderIds :
              (/\ OrderRowsOf(id) = {}
               /\ LinkRowsOf(id) = {}
               /\ OrderRowsOf(id)' # {})
                  => \A order \in {o \in Orders : o.order_id = id} :
                        add_order(order) =>
                            /\ last'.raised = "none"
                            /\ get_order(id)' = order]_vars

\* add_order has just stored an order with a reserved tick next to another
\* order that has a reserved tick of its own.
C6_Witness ==
    /\ last.op = "add_order" /\ last.raised = "none"
    /\ \E id \in OrderIds, other \in OrderIds :
          /\ id # other
          /\ OrderRowsOf(id) # {} /\ LinkRowsOf(id) # {}
          /\ OrderRowsOf(other) # {} /\ LinkRowsOf(other) # {}
          /\ disk.orders = orders /\ disk.orders_reserved_ticks = orders_reserved_ticks

\* C7: get_payments(id) returns exactly the stored payments of the transaction,
\* each once, by ascending timestamp, whatever the order of the insertions.
C7_PaymentsByTimestamp ==
    \A id \in TransactionIds :
        LET result == get_payments(id)
        IN  /\ \A i, j \in DOMAIN result :
                  i < j => result[i].timestamp <= result[j].timestamp
            /\ Range(result) = {Payment_from_database(r) : r \in PaymentRowsOf(id)}
            /\ Len(result) = Cardinality(PaymentRowsOf(id))

\* Two payments of one transaction are stored, the one with the later timestamp
\* inserted first.
C7_Witness ==
    \E i, j \in DOMAIN payments :
        /\ i < j
        /\ payments[i].transaction_trader_id = payments[j].transaction_trader_id
        /\ payments[i].transaction_number = payments[j].transaction_number
        /\ payments[i].timestamp > payments[j].timestamp

\* C8: get_next_order_number is 1 on an empty orders table and otherwise 1 + the
\* highest order_number of all orders of all traders.
C8_NextOrderNumber ==
    get_next_order_number =
        IF orders = {} THEN 1
        ELSE 1 + (CHOOSE n \in {r.order_number : r \in orders} :
                    \A r \in orders : r.order_number <= n)

\* The orders of two traders are stored, one of them numbered 0.
C8_Witness ==
    \E r1, r2 \in orders :
        r1.trader_id # r2.trader_id /\ r1.order_number = 0 /\ r2.order_number > 0

\* C1 as claimed: add_transaction for a transaction id that is stored with
\* payments completes and leaves exactly the payments of the new list.
C1_ReAddReplacesPayments ==
    [][\A transaction \in Transactions :
          (/\ last'.op = "add_transaction"
           /\ TransactionRowsOf(transaction.transaction_id) # {}
           /\ PaymentRowsOf(transaction.transaction_id) # {}
           /\ add_transaction(transaction))
              => /\ last'.raised = "none"
                 /\ Range(select_payments(payments', transaction.transaction_id)) =
                        Range(transaction.payments)
                 /\ Range(get_transaction(transaction.transaction_id)'.payments) =
                        Range(transaction.payments)]_vars

\* C1 amended: add_transaction for a transaction id that has no transactions
\* row completes and leaves exactly the payments of its list as the payments of
\* that id, whatever payments were stored for it; for a transaction id that is
\* stored it raises the duplicate-key error and leaves transactions and
\* payments as they were.
C1_AddTransactionReplacesPayments ==
    [][\A transaction \in Transactions :
          (last'.op = "add_transaction" /\ add_transaction(transaction)) =>
              LET id == transaction.transaction_id
              IN  IF TransactionRowsOf(id) = {}
                  THEN /\ last'.raised = "none"
                       /\ Range(select_payments(payments', id)) =
                              Range(transaction.payments)
                       /\ Len(select_payments(payments', id)) =
                              Len(transaction.payments)
                       /\ TransactionRowsOf(id)' # {}
                  ELSE /\ last'.raised = "IntegrityError"
                       /\ payments' = payments
                       /\ transactions' = transactions]_vars

\* The second add_transaction for a stored transaction that has payments has
\* just raised.
C1_Witness ==
    /\ last = Call("add_transaction", "IntegrityError")
    /\ \E id \in TransactionIds : TransactionRowsOf(id) # {} /\ PaymentRowsOf(id) # {}

NoOrphans ==
    /\ \A r \in orders_reserved_ticks :
          OrderRowsOf(<<r.trader_id, r.order_number>>) # {}
    /\ \A i \in DOMAIN payments :
          TransactionRowsOf(<<payments[i].transaction_trader_id,
                              payments[i].transaction_number>>) # {}

\* C5 as claimed: in every reachable state every orders_reserved_ticks row has
\* its orders row and every payments row has its transactions row.
C5_NoOrphans == NoOrphans

\* A call of add_reserved_tick or add_payment for a parent that is not stored
ChildOfMissingParent ==
    \/ /\ last'.op = "add_reserved_tick"
       /\ \E id \in OrderIds, reserved \in ReservedIds, quantity \in Quantities :
             OrderRowsOf(id) = {} /\ add_reserved_tick(id, reserved, quantity)
    \/ /\ last'.op = "add_payment"
       /\ \E payment \in Payments :
             TransactionRowsOf(payment.transaction_id) = {} /\ add_payment(payment)

\* C5 amended: a store without orphaned child rows has none after any call but
\* an add_reserved_tick or add_payment made for a parent that is not stored:
\* add_order, delete_order, delete_reserved_ticks, add_transaction,
\* delete_transaction, delete_payments, and add_reserved_tick and add_payment
\* for a stored parent, leave no orphan.
C5_NoOrphansButByCaller ==
    [][(NoOrphans /\ ~ChildOfMissingParent) => NoOrphans']_vars

\* delete_order has just removed an order with its reservation link, while a
\* transaction with its payment is stored, and no row is orphaned.
C5_Witness ==
    /\ last.op = "delete_order"
    /\ NoOrphans
    /\ payments # <<>>
    /\ \E r \in disk.orders_reserved_ticks :
          OrderRowsOf(<<r.trader_id, r.order_number>>) = {}

(***************************************************************************)
(* Migration.                                                              *)
(***************************************************************************)
StoredVersion(store) == {r.value : r \in {x \in store.option : x.key = "database_version"}}

\* C2 as claimed: the committed store never holds the version marker 2 without
\* the orders.verified and ticks.block_hash columns.
C2_NoPartialVersionAdvance ==
    (unicode(LATEST_DB_VERSION) \in StoredVersion(disk))
        => {VerifiedColumn, BlockHashColumn} \subseteq DOMAIN disk.columns

\* C9 as claimed: check_database(u"1") on a store of version 1 returns
\* LATEST_DB_VERSION and leaves orders.verified with default 1, ticks.block_hash
\* with a default of 32 zero characters, the marker at LATEST_DB_VERSION, and the
\* order and tick rows there were, with the defaults in the new columns.
C9_UpgradeFromVersionOne ==
    [][\A fail \in FailPoints :
          (/\ last'.op = "check_database" /\ last'.raised = "none"
           /\ StoredVersion(Snapshot) = {<<"1">>}
           /\ check_database(<<"1">>, fail))
              => /\ last'.returned = LATEST_DB_VERSION
                 /\ StoredVersion(Snapshot)' = {unicode(LATEST_DB_VERSION)}
                 /\ DOMAIN columns' = {VerifiedColumn, BlockHashColumn}
                 /\ columns'[VerifiedColumn] = [has_default |-> TRUE, default |-> 1]
                 /\ columns'[BlockHashColumn] =
                        [has_default |-> TRUE, default |-> Repeat("0", 32)]
                 /\ orders' = {WithColumn(r, "verified", 1) : r \in orders}
                 /\ ticks' = {WithColumn(r, "block_hash", Repeat("0", 32)) : r \in ticks}]_vars

\* A version text that is a negative number or is not a number written in the
\* decimal digits
InvalidVersion(text) == text = <<>> \/ \E i \in DOMAIN text : ~IsDigitChar(text[i])

\* C10: check_database raises for every version text that is a negative number
\* or not numeric, runs no script and leaves the tables, the version marker and
\* the committed store as they were. The error is the AssertionError of the
\* asserts, but for a text of digit characters int() does not read, where it is
\* the ValueError of int().
C10_InvalidVersionRejected ==
    [][\A database_version \in VersionTexts, fail \in FailPoints :
          (/\ last'.op = "check_database"
           /\ InvalidVersion(database_version)
           /\ check_database(database_version, fail))
              => /\ last'.raised = IF SuperscriptTwo \in Range(database_version)
                                   THEN "ValueError" ELSE "AssertionError"
                 /\ Snapshot' = Snapshot
                 /\ disk' = disk]_vars

\* check_database has just raised on a store of version 1 that holds orders.
C10_Witness ==
    /\ last = Call("check_database", "AssertionError")
    /\ StoredVersion(Snapshot) = {<<"1">>}
    /\ orders # {}
    /\ DOMAIN columns = {}

(***************************************************************************)
(* Trader identities.                                                      *)
(***************************************************************************)
TraderRowsOf(trader_id) == {r \in get_traders : r.trader_id = trader_id}

\* C12: after add_trader_identity(trader_id, ip, port) get_traders holds exactly
\* one row of that trader id, carrying the ip and port of the call, at most one
\* row of every trader id, and the rows of the other trader ids as they were
\* (so a trader id once added keeps a row).
C12_TraderIdentityUpsert ==
    [][\A trader_id \in TraderIds, ip \in IpAddresses, port \in Ports :
          (last'.op = "add_trader_identity" /\ add_trader_identity(trader_id, ip, port))
              => /\ TraderRowsOf(trader_id)' = {TraderRow(trader_id, ip, port)}
                 /\ \A other \in TraderIds \ {trader_id} :
                       /\ TraderRowsOf(other)' = TraderRowsOf(other)
                       /\ Cardinality(TraderRowsOf(other)') <= 1]_vars

\* add_trader_identity has been called for every trader id, and two of the
\* stored traders differ in ip and in port.
C12_Witness ==
    /\ last.op = "add_trader_identity"
    /\ \A trader_id \in TraderIds : TraderRowsOf(trader_id) # {}
    /\ \E r1, r2 \in get_traders : r1.ip_address # r2.ip_address /\ r1.port # r2.port

(***************************************************************************)
(* Strict inserts.                                                         *)
(***************************************************************************)
TickRowsOf(id) == {r \in ticks : r.trader_id = id[1] /\ r.order_number = id[2]}

\* No table holds two rows of one primary key.
UniqueKeys ==
    /\ \A r1, r2 \in orders : OrderKey(r1) = OrderKey(r2) => r1 = r2
    /\ \A r1, r2 \in orders_reserved_ticks :
          ReservedTickKey(r1) = ReservedTickKey(r2) => r1 = r2
    /\ \A r1, r2 \in transactions : TransactionKey(r1) = TransactionKey(r2) => r1 = r2
    /\ \A i, j \in DOMAIN payments :
          PaymentKey(payments[i]) = PaymentKey(payments[j]) => i = j
    /\ \A r1, r2 \in ticks : TickKey(r1) = TickKey(r2) => r1 = r2

\* The call has raised the duplicate-key error and has changed neither the
\* connection's tables nor the committed store.
RejectedAsDuplicate ==
    /\ last'.raised = "IntegrityError"
    /\ Snapshot' = Snapshot
    /\ disk' = disk

\* C11: add_order, add_transaction, add_payment, add_tick and add_reserved_tick
\* for a key that is in the target table raise the duplicate-key error and leave
\* every table and the committed store as they were, and after every call no
\* table holds two rows of one primary key.
C11_StrictInsert ==
    [][/\ UniqueKeys'
       /\ last'.op = "add_order" =>
             \A order \in StoreOrders :
                (OrderRowsOf(order.order_id) # {} /\ add_order(order))
                    => RejectedAsDuplicate
       /\ last'.op = "add_transaction" =>
             \A transaction \in StoreTransactions :
                (TransactionRowsOf(transaction.transaction_id) # {}
                 /\ add_transaction(transaction))
                    => RejectedAsDuplicate
       /\ last'.op = "add_payment" =>
             \A payment \in StorePayments :
                (/\ \E i \in DOMAIN payments :
                       PaymentKey(payments[i]) =
                           PaymentKey(PaymentRow(Payment_to_database(payment)))
                 /\ add_payment(payment))
                    => RejectedAsDuplicate
       /\ last'.op = "add_tick" =>
             \A tick \in StoreTicks :
                (TickRowsOf(tick.order_id) # {} /\ add_tick(tick))
                    => RejectedAsDuplicate
       /\ last'.op = "add_reserved_tick" =>
             \A order \in StoreOrders, quantity \in Quantities :
                (/\ \E r \in orders_reserved_ticks :
                       ReservedTickKey(r) =
                           ReservedTickKey(ReservedTickRow(order.order_id, <<"t2", 1>>, quantity))
                 /\ add_reserved_tick(order.order_id, <<"t2", 1>>, quantity))
                    => RejectedAsDuplicate]_vars

\* add_tick has just raised on a tick that is stored, while an order with its
\* link and a transaction with its payment are stored.
C11_Witness ==
    /\ last = Call("add_tick", "IntegrityError")
    /\ ticks # {}
    /\ \E r \in orders : LinkRowsOf(<<r.trader_id, r.order_number>>) # {}
    /\ \E r \in transactions :
          PaymentRowsOf(<<r.trader_id, r.transaction_number>>) # {}

(***************************************************************************)
(* The schema script run again.                                            *)
(***************************************************************************)
\* C13 as claimed: on a store on which the script of get_schema has been run
\* (all its tables exist and the version marker is seeded), running the script
\* again succeeds and leaves the store unchanged.
C13_SchemaScriptIdempotent ==
    (tables = AllTables /\ StoredVersion(Snapshot) = {unicode(LATEST_DB_VERSION)})
        => executescript(get_schema, Snapshot, 0) = Raised(Snapshot, "none")

(***************************************************************************)
(* Lookups of keys that are not stored.                                    *)
(***************************************************************************)
\* C15: get_order(id) is None whenever no orders row has the key id, also when
\* reservation links of that key are stored, and get_transaction(id) is None
\* whenever no transactions row has the key id, also when payments of that key
\* are stored.
C15_LookupMissIsNone ==
    /\ \A id \in OrderIds \cup ReservedIds :
          OrderRowsOf(id) = {} => get_order(id) = NoneValue
    /\ \A id \in TransactionIds :
          TransactionRowsOf(id) = {} => get_transaction(id) = NoneValue

\* Reservation links of an order that is not stored and payments of a
\* transaction that is not stored are in the tables.
C15_Witness ==
    /\ \E id \in OrderIds : OrderRowsOf(id) = {} /\ LinkRowsOf(id) # {}
    /\ \E id \in TransactionIds : TransactionRowsOf(id) = {} /\ PaymentRowsOf(id) # {}

(***************************************************************************)
(* What is committed when a method returns.                                *)
(***************************************************************************)
WritingMethods ==
    {"add_order", "add_reserved_tick", "delete_order", "delete_reserved_ticks",
     "add_transaction", "add_payment", "delete_transaction", "delete_payments",
     "add_tick", "delete_all_ticks", "add_trader_identity"}

\* C16 as claimed: when a writing method has returned, the committed store is
\* the store the connection sees: no change is pending.
C16_CommittedOnReturn ==
    (last.op \in WritingMethods /\ last.raised = "none") => disk = Snapshot

(***************************************************************************)
(* The order number counter over time.                                     *)
(***************************************************************************)
\* C17 as claimed: over any step of add_order, delete_order (and of the two
\* reserved tick methods) the value of get_next_order_number does not decrease.
C17_NextOrderNumberMonotonic ==
    [][get_next_order_number' >= get_next_order_number]_vars

\* C17 amended: the value of get_next_order_number does not decrease over an
\* add_order (nor over add_reserved_tick and delete_reserved_ticks), and does
\* not increase over a delete_order, after which it is 1 + the highest number
\* left, or 1 when no order or only orders numbered 0 are left.
C17_NextOrderNumberUnderAddAndDelete ==
    [][/\ last'.op # "delete_order" => get_next_order_number' >= get_next_order_number
       /\ last'.op = "delete_order" =>
             /\ get_next_order_number' <= get_next_order_number
             /\ \A r \in orders' : r.order_number < get_next_order_number'
             /\ \/ get_next_order_number' = 1
                \/ \E r \in orders' : r.order_number + 1 = get_next_order_number']_vars

\* delete_order has just removed the order of the highest number: the committed
\* store still holds it, and the counter is back below that number.
C17_Witness ==
    /\ last.op = "delete_order"
    /\ \E r \in disk.orders : r.order_number >= get_next_order_number
    /\ orders # {}

(***************************************************************************)
(* Freshness of the transaction number.                                    *)
(***************************************************************************)
\* The key the INSERT of add_transaction would write for a trader and the
\* number get_next_transaction_number returns.
NextTransactionKey(trader_id) ==
    TransactionKey(TransactionRow(Transaction_to_database(
        [transaction_id |-> <<trader_id, get_next_transaction_number>>,
         price |-> 0, payments |-> <<>>])))

\* C20: the number get_next_transaction_number returns is the
\* transaction_number of no stored transaction of any trader, so the key
\* add_transaction would insert for any trader and that number is not taken.
C20_NextTransactionNumberFresh ==
    /\ \A r \in transactions : r.transaction_number # get_next_transaction_number
    /\ \A trader_id \in {"t1", "t2"}, r \in transactions :
          TransactionKey(r) # NextTransactionKey(trader_id)

\* Transactions of two traders are stored, one of them numbered 0 and one
\* numbered above it.
C20_Witness ==
    \E r1, r2 \in transactions :
        /\ r1.trader_id # r2.trader_id
        /\ r1.transaction_number = 0
        /\ r2.transaction_number > 0

(***************************************************************************)
(* The version check_database returns.                                     *)
(***************************************************************************)
\* C19 as claimed: when check_database, called with the version the store
\* holds (0 for a new file), returns normally, the value it returns is the
\* database_version marker the store holds at that moment.
C19_ReturnsStoredVersion ==
    [][\A database_version \in VersionTexts, fail \in FailPoints :
          (/\ last'.op = "check_database" /\ last'.raised = "none"
           /\ \/ StoredVersion(Snapshot) = {database_version}
              \/ database_version = <<"0">> /\ tables = {}
           /\ check_database(database_version, fail))
              => StoredVersion(Snapshot)' = {unicode(last'.returned)}]_vars

(***************************************************************************)
(* The aggregate a crash inside add_order or add_transaction leaves.       *)
(***************************************************************************)
\* C18: when the process ends inside add_order after the commit of the orders
\* row and before every reserved tick is written, the committed store holds the
\* order with a strict subset of its reserved ticks and get_order returns that
\* incomplete order; when it ends inside add_transaction after the commit of the
\* transactions row and before every payment is written, the committed store
\* holds the transaction with fewer payments than its list and get_transaction
\* returns that incomplete transaction.
C18_CrashLeavesIncompleteAggregate ==
    [][/\ (last'.op = "add_order" /\ last'.raised = "crash") =>
             /\ disk' = Snapshot'
             /\ \A order \in {o \in CrashOrders : OrderRowsOf(o.order_id) = {}},
                   done \in SUBSET ReservedIds :
                    add_order_crash(order, done) =>
                        /\ done # DOMAIN order.reserved_ticks
                        /\ get_order(order.order_id)' =
                              [order EXCEPT !.reserved_ticks =
                                  [id \in done |-> order.reserved_ticks[id]]]
       /\ (last'.op = "add_transaction" /\ last'.raised = "crash") =>
             /\ disk' = Snapshot'
             /\ \A transaction \in CrashTransactions, n \in 0..MaxPayments :
                    add_transaction_crash(transaction, n) =>
                        /\ TransactionRowsOf(transaction.transaction_id)' # {}
                        /\ n < Len(transaction.payments)
                        /\ Range(select_payments(payments', transaction.transaction_id)) =
                              {transaction.payments[i] : i \in 1..n}
                        /\ Len(select_payments(payments', transaction.transaction_id)) = n]_vars

\* The store was opened again after add_order had written the order and one of
\* its two reserved ticks.
C18_Witness ==
    /\ last = Call("add_order", "crash")
    /\ \E id \in OrderIds :
          /\ get_order(id) # NoneValue
          /\ Cardinality(LinkRowsOf(id)) = 1
          /\ disk = Snapshot

====
